---- MODULE Spec2Model ----
(***************************************************************************)
(* The non-centered reparametrization of docs/advanced/reparametrization   *)
(* .ipynb: the affine transform  raw * scale + loc  of the reparametrized  *)
(* ice-cream model (cell "Build reparametrized model"), the sampler that   *)
(* re-evaluates it, and the Neal's funnel loop.                            *)
(*                                                                         *)
(* Numbers are binary floating-point values of a small format (FBits bits  *)
(* of mantissa, FExp exponent steps above the subnormal range) with the    *)
(* IEEE-754 rounding of float64: round to nearest, ties to even, overflow  *)
(* to infinity.  A value is held as the integer count of its smallest      *)
(* subnormal; One is the count that stands for 1.0.                        *)
(***************************************************************************)
EXTENDS Integers, Sequences, FiniteSets, TLC

VARIABLES
    \* one call of the transform pair: its operands, its position, its results
    fn_raw, fn_loc, fn_scale, fn_pc, fn_out, fn_back,
    \* the notebook: position, funnel loop, data, model shapes, sampled point
    pc, loop_i, v, x, data, n_owners,
    logit_p_owner_mean, logit_p_owner_scale, logit_p_shop_raw, logit_p_shop,
    \* the scale operand of the latest evaluation of raw * scale + loc
    scale_arg,
    \* parallel chains evaluating the transform: position, operands, buffers
    ch_pc, ch_in, ch_buf, ch_out

fnVars ==
    << fn_raw, fn_loc, fn_scale, fn_pc, fn_out, fn_back >>

nbVars ==
    << pc, loop_i, v, x, data, n_owners, logit_p_owner_mean, logit_p_owner_scale,
       logit_p_shop_raw, logit_p_shop, scale_arg >>

chVars ==
    << ch_pc, ch_in, ch_buf, ch_out >>

vars ==
    << fnVars, nbVars, chVars >>

\* ------------------------------------------------------------- bounds
\* mantissa bits of the floating-point format
FBits == 2
\* binades above the subnormal range
FExp == 2
\* longest array handed to the transform in the function-level specification
MaxLen == 3
\* most shop rows in the data of the sampler specification
MaxShops == 2
\* iterations of the funnel loop that are followed (the code runs 1000)
MaxIter == 2
\* parallel chains in the concurrency specification
NChains == 2

\* ------------------------------------------------------ floating point
Abs(z) ==
    IF z < 0 THEN -z ELSE z

Sgn(z) ==
    IF z < 0 THEN -1 ELSE IF z > 0 THEN 1 ELSE 0

\* 1.0
One ==
    2 ^ (FBits - 1)

\* +infinity: the first value past the largest finite one
Inf ==
    (2 ^ FBits) * (2 ^ FExp)

\* not-a-number
NaN ==
    2 * Inf

IsFinite(z) ==
    -Inf < z /\ z < Inf

\* the finite values of the format
FloatVals ==
    { s * m * (2 ^ k) : s \in {-1, 1}, m \in 0 .. (2 ^ FBits - 1), k \in 0 .. FExp }

\* the binade of the magnitude a/d (d > 0, a/d below the overflow threshold):
\* the least k from j on with a/d < 2^(FBits + k)
RECURSIVE Binade(_, _, _)
Binade(a, d, j) ==
    IF j >= FExp \/ a < (2 ^ (FBits + j)) * d THEN j ELSE Binade(a, d, j + 1)

\* the rational n/d (d > 0) rounded to the format: nearest, ties to even
RoundQ(n, d) ==
    LET a == Abs(n)
    IN  IF a >= Inf * d
        THEN Sgn(n) * Inf
        ELSE LET e == 2 ^ Binade(a, d, 0)
                 q == a \div (e * d)
                 r == a % (e * d)
                 up == IF 2 * r > e * d \/ (2 * r = e * d /\ q % 2 = 1) THEN 1 ELSE 0
             IN  Sgn(n) * (q + up) * e

\* a * b
FMul(a, b) ==
    IF a = NaN \/ b = NaN THEN NaN
    ELSE IF ~IsFinite(a) \/ ~IsFinite(b)
         THEN (IF a = 0 \/ b = 0 THEN NaN ELSE Sgn(a) * Sgn(b) * Inf)
         ELSE RoundQ(a * b, One)

\* a + b
FAdd(a, b) ==
    IF a = NaN \/ b = NaN THEN NaN
    ELSE IF ~IsFinite(a) /\ ~IsFinite(b)
         THEN (IF a = b THEN a ELSE NaN)
         ELSE IF ~IsFinite(a) THEN a
         ELSE IF ~IsFinite(b) THEN b
         ELSE RoundQ(a + b, 1)

\* a - b
FSub(a, b) ==
    IF b = NaN THEN NaN ELSE FAdd(a, -b)

\* a / b, b # 0
FDiv(a, b) ==
    IF a = NaN \/ b = NaN THEN NaN
    ELSE IF ~IsFinite(a) /\ ~IsFinite(b) THEN NaN
    ELSE IF ~IsFinite(a) THEN Sgn(a) * Sgn(b) * Inf
    ELSE IF ~IsFinite(b) THEN 0
    ELSE RoundQ(Sgn(b) * a * One, Abs(b))

\* ------------------------------------------------------------- arrays
\* a scalar: shape ()
Scalar(e) ==
    [shape |-> << >>, data |-> << e >>]

\* a one-dimensional array: shape (n,)
Vec(s) ==
    [shape |-> << Len(s) >>, data |-> s]

Size(a) ==
    IF a.shape = << >> THEN 1 ELSE a.shape[1]

Max2(p, q) ==
    IF p >= q THEN p ELSE q

\* the array library's broadcasting rule, for ranks 0 and 1
Broadcastable(a, b) ==
    Size(a) = 1 \/ Size(b) = 1 \/ Size(a) = Size(b)

BShape(a, b) ==
    IF a.shape = << >> /\ b.shape = << >>
    THEN << >>
    ELSE << Max2(Size(a), Size(b)) >>

At_first(a, k) ==
    a.data[1]

\* element k of a when broadcast
At(a, k) ==
    IF Size(a) = 1 THEN a.data[1] ELSE a.data[k]

AMul(a, b) ==
    [shape |-> BShape(a, b),
     data |-> [k \in 1 .. Max2(Size(a), Size(b)) |-> FMul(At(a, k), At(b, k))]]

AAdd(a, b) ==
    [shape |-> BShape(a, b),
     data |-> [k \in 1 .. Max2(Size(a), Size(b)) |-> FAdd(At(a, k), At(b, k))]]

ASub(a, b) ==
    [shape |-> BShape(a, b),
     data |-> [k \in 1 .. Max2(Size(a), Size(b)) |-> FSub(At(a, k), At(b, k))]]

ADiv(a, b) ==
    [shape |-> BShape(a, b),
     data |-> [k \in 1 .. Max2(Size(a), Size(b)) |-> FDiv(At(a, k), At(b, k))]]

\* --------------------------------------------------------- outcomes
NoValue ==
    [shape |-> << >>, data |-> << >>]

Ok(a) ==
    [kind |-> "ok", err |-> "", val |-> a]

Raise(e) ==
    [kind |-> "raise", err |-> e, val |-> NoValue]

NotCalled ==
    [kind |-> "none", err |-> "", val |-> NoValue]

\* --------------------------------------------------------- transform
Transform_checked(raw, loc, scale) ==
    IF \E k \in 1 .. Size(scale) : scale.data[k] <= 0
    THEN Raise("InvalidParameterError")
    ELSE IF ~Broadcastable(raw, scale) \/ ~Broadcastable(AMul(raw, scale), loc)
    THEN Raise("ValueError")
    ELSE Ok(AAdd(AMul(raw, scale), loc))

Transform_swapped(raw, loc, scale) ==
    IF ~Broadcastable(raw, loc) \/ ~Broadcastable(AMul(raw, loc), scale)
    THEN Raise("ValueError")
    ELSE Ok(AAdd(AMul(raw, loc), scale))

Transform_zero_as_one(raw, loc, scale) ==
    IF ~Broadcastable(raw, scale) \/ ~Broadcastable(AMul(raw, scale), loc)
    THEN Raise("ValueError")
    ELSE IF \A k \in 1 .. Size(scale) : scale.data[k] = 0
    THEN Ok(AAdd(AAdd(raw, Scalar(0)), loc))
    ELSE Ok(AAdd(AMul(raw, scale), loc))

\* logit_p_shop_raw * scale + mean: no check of scale; the array library
\* raises when the shapes do not broadcast
Transform(raw, loc, scale) ==
    IF ~Broadcastable(raw, scale) \/ ~Broadcastable(AMul(raw, scale), loc)
    THEN Raise("ValueError")
    ELSE Ok(AAdd(AMul(raw, scale), loc))

Untransform_coerce(effective, loc, scale) ==
    IF \E k \in 1 .. Size(scale) : scale.data[k] = 0
    THEN Ok(Scalar(0))
    ELSE IF ~Broadcastable(effective, loc) \/ ~Broadcastable(ASub(effective, loc), scale)
    THEN Raise("ValueError")
    ELSE Ok(ADiv(ASub(effective, loc), scale))

\* the inverse mapping (effective - loc) / scale
Untransform(effective, loc, scale) ==
    IF \E k \in 1 .. Size(scale) : scale.data[k] = 0
    THEN Raise("DivisionUndefinedError")
    ELSE IF ~Broadcastable(effective, loc) \/ ~Broadcastable(ASub(effective, loc), scale)
    THEN Raise("ValueError")
    ELSE Ok(ADiv(ASub(effective, loc), scale))

\* ------------------------------------------------ function-level calls
\* element values of the array operands
RawElems ==
    {0, One}

LocElems ==
    {0, One, 2 * One}

ScaleElems ==
    {-One, 0, One}

\* a scalar, or an array of n elements, over S
ArrOf(n, S) ==
    { Scalar(e) : e \in S } \cup { Vec(s) : s \in [1 .. n -> S] }

FnIdle ==
    /\ fn_raw = Scalar(0) /\ fn_loc = Scalar(0) /\ fn_scale = Scalar(One)
    /\ fn_pc = "off" /\ fn_out = NotCalled /\ fn_back = NotCalled

FnInit ==
    /\ \/ /\ fn_raw \in { Scalar(e) : e \in FloatVals }
          /\ fn_loc \in { Scalar(e) : e \in FloatVals }
          /\ fn_scale \in { Scalar(e) : e \in FloatVals }
       \/ \E n \in 1 .. MaxLen :
             /\ fn_raw \in ArrOf(n, RawElems)
             /\ fn_loc \in ArrOf(n, LocElems)
             /\ fn_scale \in ArrOf(n, ScaleElems)
       \/ \E n \in 2 .. MaxLen, m \in 2 .. MaxLen :
             /\ n # m
             /\ fn_raw = Vec([k \in 1 .. n |-> One])
             /\ fn_loc = Vec([k \in 1 .. m |-> 0])
             /\ fn_scale \in { Vec([k \in 1 .. n |-> e]) : e \in ScaleElems }
    /\ fn_pc = "idle" /\ fn_out = NotCalled /\ fn_back = NotCalled

\* effective = transform(raw, loc, scale)
TransformCall ==
    /\ fn_pc = "idle"
    /\ fn_out' = Transform(fn_raw, fn_loc, fn_scale)
    /\ fn_pc' = "transformed"
    /\ UNCHANGED << fn_raw, fn_loc, fn_scale, fn_back, nbVars, chVars >>

\* untransform(effective, loc, scale) on the result of the transform
InverseCall ==
    /\ fn_pc = "transformed" /\ fn_out.kind = "ok"
    /\ fn_back' = Untransform(fn_out.val, fn_loc, fn_scale)
    /\ fn_pc' = "roundtrip"
    /\ UNCHANGED << fn_raw, fn_loc, fn_scale, fn_out, nbVars, chVars >>

\* untransform(effective, loc, scale) on a given effective value (held in fn_raw)
UntransformCall ==
    /\ fn_pc = "idle"
    /\ fn_back' = Untransform(fn_raw, fn_loc, fn_scale)
    /\ fn_pc' = "untransformed"
    /\ UNCHANGED << fn_raw, fn_loc, fn_scale, fn_out, nbVars, chVars >>

\* ------------------------------------------------------- the notebook
\* for i in range(1000)
FunnelN == 1000

\* draws of a standard normal (norm(0, 1).rvs, pm.Normal): -1.0 and the
\* smallest positive value
NormalDraws ==
    {-One, 1}

ExponentialDraws_nonneg ==
    {0, One}

\* draws of pm.Exponential: the smallest positive value and 1.0
ExponentialDraws ==
    {1, One}

RECURSIVE Factorial(_)
Factorial(n) ==
    IF n <= 1 THEN 1 ELSE n * Factorial(n - 1)

RECURSIVE Pow(_, _)
Pow(b, n) ==
    IF n = 0 THEN 1 ELSE b * Pow(b, n - 1)

\* numerator of the Taylor polynomial of degree n of e^(z/One), over One^n * n!
RECURSIVE ExpNum(_, _, _)
ExpNum(z, n, j) ==
    IF j > n THEN 0
    ELSE Pow(z, j) * Pow(One, n - j) * (Factorial(n) \div Factorial(j)) + ExpNum(z, n, j + 1)

\* np.exp(z) rounded to the format, from the Taylor polynomial of degree 6
\* (exact enough on the draws the model takes); e^z = 1 / e^(-z) for z < 0
NpExp(z) ==
    IF z >= 0
    THEN RoundQ(ExpNum(z, 6, 0) * One, Pow(One, 6) * Factorial(6))
    ELSE RoundQ(Pow(One, 6) * Factorial(6) * One, ExpNum(-z, 6, 0))

\* the owner_idx column of the loaded data: one owner code per shop row,
\* the codes being 0 .. k-1 for the k owners
DataSets ==
    UNION { { s \in [1 .. n -> 0 .. (n - 1)] :
                \E k \in 1 .. n : { s[j] : j \in 1 .. n } = 0 .. (k - 1) }
            : n \in 1 .. MaxShops }

NOwners_max(d) ==
    CHOOSE m \in { d[j] : j \in DOMAIN d } : \A j \in DOMAIN d : d[j] <= m

\* len(data["owner_idx"].unique())
NOwners(d) ==
    Cardinality({ d[j] : j \in DOMAIN d })

\* arr[j] for a position j of the array library: negative positions count
\* from the end
InRange(j, n) ==
    -n <= j /\ j < n

Take(arr, j) ==
    IF j >= 0 THEN arr[j + 1] ELSE arr[Len(arr) + j + 1]

\* arr[idx]
Gather(arr, idx) ==
    [k \in 1 .. Len(idx) |-> Take(arr, idx[k])]

Deterministic_stale(raw, scale, mean, idx) ==
    IF logit_p_shop.kind = "ok" /\ Size(logit_p_shop.val) = Len(idx)
    THEN logit_p_shop
    ELSE Transform(Vec(raw), Vec(Gather(mean, idx)), Vec(Gather(scale, idx)))

\* logit_p_shop_raw * logit_p_owner_scale[owner_idx] + logit_p_owner_mean[owner_idx]
Deterministic(raw, scale, mean, idx) ==
    IF \E k \in 1 .. Len(idx) : ~InRange(idx[k], Len(scale)) \/ ~InRange(idx[k], Len(mean))
    THEN Raise("IndexError")
    ELSE Transform(Vec(raw), Vec(Gather(mean, idx)), Vec(Gather(scale, idx)))

\* the scale operand of that evaluation
ScaleOperand(scale, idx) ==
    IF \E k \in 1 .. Len(idx) : ~InRange(idx[k], Len(scale))
    THEN NoValue
    ELSE Vec(Gather(scale, idx))

NbIdle ==
    /\ pc = "off" /\ loop_i = 0 /\ v = NoValue /\ x = NoValue /\ data = << >>
    /\ n_owners = 0
    /\ logit_p_owner_mean = << >> /\ logit_p_owner_scale = << >>
    /\ logit_p_shop_raw = << >> /\ logit_p_shop = NotCalled /\ scale_arg = NoValue

NbInit ==
    /\ pc = "funnel" /\ loop_i = 0 /\ v = NoValue /\ x = NoValue /\ data = << >>
    /\ n_owners = 0
    /\ logit_p_owner_mean = << >> /\ logit_p_owner_scale = << >>
    /\ logit_p_shop_raw = << >> /\ logit_p_shop = NotCalled /\ scale_arg = NoValue

\* one iteration of the funnel loop: v = norm(0, 1).rvs(1),
\* x = norm(0, np.exp(v)).rvs(n_dims), which is 0 + np.exp(v) * (standard draw)
FunnelIter ==
    /\ pc = "funnel" /\ loop_i < FunnelN /\ loop_i < MaxIter
    /\ \E dv \in NormalDraws, dx \in NormalDraws :
          /\ v' = Vec(<< dv >>)
          /\ scale_arg' = Vec(<< NpExp(dv) >>)
          /\ x' = Transform(Vec(<< dx >>), Scalar(0), Vec(<< NpExp(dv) >>)).val
    /\ loop_i' = loop_i + 1
    /\ UNCHANGED << pc, data, n_owners, logit_p_owner_mean, logit_p_owner_scale,
                    logit_p_shop_raw, logit_p_shop, fnVars, chVars >>

\* data = load_ice_cream(), once the loop has ended.  The iterations past
\* MaxIter are not followed, so what the loop leaves in v and x is not known:
\* nothing reads them again.
LoadData ==
    /\ pc = "funnel" /\ ~(loop_i < FunnelN /\ loop_i < MaxIter)
    /\ data' \in DataSets
    /\ pc' = "loaded"
    /\ v' = NoValue /\ x' = NoValue /\ scale_arg' = NoValue
    /\ UNCHANGED << loop_i, n_owners, logit_p_owner_mean, logit_p_owner_scale,
                    logit_p_shop_raw, logit_p_shop, fnVars, chVars >>

\* n_owners = ...; with pm.Model() as model: ...
BuildModel ==
    /\ pc = "loaded"
    /\ n_owners' = NOwners(data)
    /\ pc' = "built"
    /\ UNCHANGED << loop_i, v, x, data, logit_p_owner_mean, logit_p_owner_scale,
                    logit_p_shop_raw, logit_p_shop, scale_arg, fnVars, chVars >>

\* one draw of pm.sample: a new point of the free variables and the
\* deterministic logit_p_shop evaluated at it
SampleStep ==
    /\ pc \in {"built", "sampling"}
    /\ \E mean \in [1 .. n_owners -> NormalDraws],
          scale \in [1 .. n_owners -> ExponentialDraws],
          raw \in [1 .. Len(data) -> NormalDraws] :
          /\ logit_p_owner_mean' = mean
          /\ logit_p_owner_scale' = scale
          /\ logit_p_shop_raw' = raw
          /\ logit_p_shop' = Deterministic(raw, scale, mean, data)
          /\ scale_arg' = ScaleOperand(scale, data)
    /\ pc' = "sampling"
    /\ UNCHANGED << loop_i, v, x, data, n_owners, fnVars, chVars >>

\* ------------------------------------------------------ parallel chains
\* Each chain of pm.sample evaluates raw * scale + loc at its own point, in
\* two steps: the product into a temporary, then the sum.
Chains ==
    1 .. NChains

ChRaw ==
    {-One, 1}

ChLoc ==
    {0, One}

ChScale ==
    {1, One}

NoArgs ==
    [raw |-> 0, loc |-> 0, scale |-> 0]

TmpBuf_shared(c) ==
    1

\* the temporary of chain c's product: the evaluation's own storage
TmpBuf(c) ==
    c

ChIdle ==
    /\ ch_pc = [c \in Chains |-> "off"]
    /\ ch_in = [c \in Chains |-> NoArgs]
    /\ ch_buf = [c \in Chains |-> 0]
    /\ ch_out = [c \in Chains |-> 0]

ChInit ==
    /\ ch_pc = [c \in Chains |-> "idle"]
    /\ ch_in = [c \in Chains |-> NoArgs]
    /\ ch_buf = [c \in Chains |-> 0]
    /\ ch_out = [c \in Chains |-> 0]

\* the sampler of chain c proposes a point and starts the evaluation
ChCall(c) ==
    /\ ch_pc[c] = "idle"
    /\ \E r \in ChRaw, l \in ChLoc, s \in ChScale :
          ch_in' = [ch_in EXCEPT ![c] = [raw |-> r, loc |-> l, scale |-> s]]
    /\ ch_pc' = [ch_pc EXCEPT ![c] = "mul"]
    /\ UNCHANGED << ch_buf, ch_out, fnVars, nbVars >>

\* tmp = raw * scale
ChMul(c) ==
    /\ ch_pc[c] = "mul"
    /\ ch_buf' = [ch_buf EXCEPT ![TmpBuf(c)] = FMul(ch_in[c].raw, ch_in[c].scale)]
    /\ ch_pc' = [ch_pc EXCEPT ![c] = "add"]
    /\ UNCHANGED << ch_in, ch_out, fnVars, nbVars >>

\* effective = tmp + loc; the temporary is released
ChAdd(c) ==
    /\ ch_pc[c] = "add"
    /\ ch_out' = [ch_out EXCEPT ![c] = FAdd(ch_buf[TmpBuf(c)], ch_in[c].loc)]
    /\ ch_buf' = [ch_buf EXCEPT ![TmpBuf(c)] = 0]
    /\ ch_pc' = [ch_pc EXCEPT ![c] = "done"]
    /\ UNCHANGED << ch_in, fnVars, nbVars >>

\* the value is handed to the sampler of chain c, which goes on to its next step
ChReturn(c) ==
    /\ ch_pc[c] = "done"
    /\ ch_pc' = [ch_pc EXCEPT ![c] = "idle"]
    /\ ch_in' = [ch_in EXCEPT ![c] = NoArgs]
    /\ ch_out' = [ch_out EXCEPT ![c] = 0]
    /\ UNCHANGED << ch_buf, fnVars, nbVars >>

\* ------------------------------------------------------ specifications
Init ==
    NbInit /\ FnIdle /\ ChIdle

Next ==
    \/ FunnelIter
    \/ LoadData
    \/ BuildModel
    \/ SampleStep

\* the notebook run from its first cell
Spec ==
    Init /\ [][Next]_vars

FnNext ==
    \/ TransformCall
    \/ InverseCall
    \/ UntransformCall

InitFn ==
    FnInit /\ NbIdle /\ ChIdle

\* the transform pair applied to every operand triple within the bounds
SpecFn ==
    InitFn /\ [][FnNext]_vars

ChNext ==
    \E c \in Chains : ChCall(c) \/ ChMul(c) \/ ChAdd(c) \/ ChReturn(c)

InitChains ==
    ChInit /\ FnIdle /\ NbIdle

\* the chains of one sampling run, interleaved
SpecChains ==
    InitChains /\ [][ChNext]_vars

\* ============================================================== claims
\* size of the result of the call in fn_raw, fn_loc, fn_scale
FnSize ==
    Max2(Max2(Size(fn_raw), Size(fn_scale)), Size(fn_loc))

FnShape ==
    IF fn_raw.shape = << >> /\ fn_loc.shape = << >> /\ fn_scale.shape = << >>
    THEN << >>
    ELSE << FnSize >>

\* the three operands broadcast against each other
FnBroadcasts ==
    \A a \in {fn_raw, fn_loc, fn_scale}, b \in {fn_raw, fn_loc, fn_scale} :
        Size(a) = 1 \/ Size(b) = 1 \/ Size(a) = Size(b)

\* element k of the call is computed without rounding: raw * scale and
\* raw * scale + loc are both values of the format
FnExact(k) ==
    /\ (At(fn_raw, k) * At(fn_scale, k)) % One = 0
    /\ ((At(fn_raw, k) * At(fn_scale, k)) \div One) \in FloatVals
    /\ ((At(fn_raw, k) * At(fn_scale, k)) \div One) + At(fn_loc, k) \in FloatVals

\* C1: for operands that broadcast, with every scale element > 0, transform
\* returns, element by element
\* under broadcasting, raw * scale + loc (one rounded product, one rounded
\* sum; the exact value where it is a value of the format), in the broadcast
\* shape; transform(0, loc, scale) is loc, and
\* transform([1,1,1], [0,1,2], [1,1,1]) is [1,2,3].
C1_TransformAffine ==
    ( /\ fn_pc = "transformed" /\ FnBroadcasts
      /\ \A k \in 1 .. Size(fn_scale) : fn_scale.data[k] > 0 ) =>
        /\ fn_out.kind = "ok"
        /\ fn_out.val.shape = FnShape
        /\ Len(fn_out.val.data) = FnSize
        /\ \A k \in 1 .. FnSize :
              /\ fn_out.val.data[k] = FAdd(FMul(At(fn_raw, k), At(fn_scale, k)), At(fn_loc, k))
              /\ FnExact(k) =>
                    fn_out.val.data[k] * One
                        = At(fn_raw, k) * At(fn_scale, k) + At(fn_loc, k) * One
              /\ At(fn_raw, k) = 0 => fn_out.val.data[k] = At(fn_loc, k)
        /\ ( /\ fn_raw = Vec(<< One, One, One >>)
             /\ fn_loc = Vec(<< 0, One, 2 * One >>)
             /\ fn_scale = Vec(<< One, One, One >>) )
           => fn_out.val = Vec(<< One, 2 * One, 3 * One >>)

\* a scalar scale of 1.0 broadcast over three rows
C1_Witness ==
    /\ fn_pc = "transformed"
    /\ fn_raw = Vec(<< One, One, One >>)
    /\ fn_loc = Vec(<< 0, One, 2 * One >>)
    /\ fn_scale = Scalar(One)
    /\ fn_out = Ok(Vec(<< One, 2 * One, 3 * One >>))

\* C2 as stated: for every raw, loc and scale # 0,
\* untransform(transform(raw, loc, scale), loc, scale) equals raw.  It is
\* stated here for the calls whose effective value is finite, so that it
\* fails by rounding alone and not by overflow.
C2_RoundTrip ==
    ( /\ fn_pc = "roundtrip"
      /\ \A k \in 1 .. Size(fn_scale) : fn_scale.data[k] # 0
      /\ \A k \in 1 .. FnSize : IsFinite(fn_out.val.data[k]) ) =>
        /\ fn_back.kind = "ok"
        /\ \A k \in 1 .. FnSize : fn_back.val.data[k] = At(fn_raw, k)

\* C2 amended: for scale # 0 the round trip returns raw in every element
\* whose transform is computed without rounding (raw * scale and
\* raw * scale + loc are both values of the format).
C2_RoundTripExact ==
    (fn_pc = "roundtrip" /\ \A k \in 1 .. Size(fn_scale) : fn_scale.data[k] # 0) =>
        /\ fn_back.kind = "ok"
        /\ Len(fn_back.val.data) = FnSize
        /\ \A k \in 1 .. FnSize : FnExact(k) => fn_back.val.data[k] = At(fn_raw, k)

\* 1.5 * 2.0 - 1.0 = 2.0 and back
C2_Witness ==
    /\ fn_pc = "roundtrip"
    /\ fn_raw = Scalar(One + One \div 2)
    /\ fn_scale = Scalar(2 * One)
    /\ fn_loc = Scalar(-One)
    /\ fn_out = Ok(Scalar(2 * One))
    /\ fn_back = Ok(Scalar(One + One \div 2))

\* C4 as stated: with a negative element of scale, transform raises
\* InvalidParameterError and yields no value.
C4_NegativeScaleRaises ==
    (fn_pc = "transformed" /\ \E k \in 1 .. Size(fn_scale) : fn_scale.data[k] < 0) =>
        fn_out.kind = "raise" /\ fn_out.err = "InvalidParameterError"

\* C4 amended: the transform checks nothing: with a negative element of
\* scale (and operands that broadcast) it raises nothing and returns
\* raw * scale + loc computed with that scale.
C4_NegativeScaleComputed ==
    ( /\ fn_pc = "transformed" /\ FnBroadcasts
      /\ \E k \in 1 .. Size(fn_scale) : fn_scale.data[k] < 0 ) =>
        /\ fn_out.kind = "ok"
        /\ Len(fn_out.val.data) = FnSize
        /\ \A k \in 1 .. FnSize :
              fn_out.val.data[k] = FAdd(FMul(At(fn_raw, k), At(fn_scale, k)), At(fn_loc, k))

\* transform(0.5, 0.0, -1.0) = -0.5
C4_Witness ==
    /\ fn_pc = "transformed"
    /\ fn_raw = Scalar(One \div 2)
    /\ fn_loc = Scalar(0)
    /\ fn_scale = Scalar(-One)
    /\ fn_out = Ok(Scalar(-(One \div 2)))

\* C5: untransform with scale == 0 signals DivisionUndefinedError for every
\* effective and loc and returns no value.
C5_ZeroScaleInverse ==
    (fn_pc = "untransformed" /\ \A k \in 1 .. Size(fn_scale) : fn_scale.data[k] = 0) =>
        /\ fn_back.kind = "raise"
        /\ fn_back.err = "DivisionUndefinedError"
        /\ fn_back.val = NoValue

C5_Witness ==
    /\ fn_pc = "untransformed"
    /\ fn_raw = Scalar(One)
    /\ fn_loc = Scalar(-One)
    /\ fn_scale = Scalar(0)
    /\ fn_back = Raise("DivisionUndefinedError")

\* C6: with scale == 0 (and operands that broadcast), transform either
\* raises InvalidParameterError or returns exactly loc, and nothing else.
C6_ZeroScaleForward ==
    ( /\ fn_pc = "transformed" /\ FnBroadcasts
      /\ \A k \in 1 .. Size(fn_scale) : fn_scale.data[k] = 0 ) =>
        \/ fn_out.kind = "raise" /\ fn_out.err = "InvalidParameterError"
        \/ /\ fn_out.kind = "ok"
           /\ Len(fn_out.val.data) = FnSize
           /\ \A k \in 1 .. FnSize : fn_out.val.data[k] = At(fn_loc, k)

\* transform(0.5, 1.0, 0.0) = 1.0
C6_Witness ==
    /\ fn_pc = "transformed"
    /\ fn_raw = Scalar(One \div 2)
    /\ fn_loc = Scalar(One)
    /\ fn_scale = Scalar(0)
    /\ fn_out = Ok(Scalar(One))

\* C7: under every interleaving of the chains, a finished evaluation holds
\* the value its own operands give when evaluated alone, every step of an
\* evaluation in progress can be taken whatever the other chains do, and an
\* evaluation in progress leaves its operands as they were.
C7_ChainsIndependent ==
    /\ [](\A c \in Chains :
            /\ ch_pc[c] = "done" =>
                  Ok(Scalar(ch_out[c]))
                      = Transform(Scalar(ch_in[c].raw), Scalar(ch_in[c].loc), Scalar(ch_in[c].scale))
            /\ ch_pc[c] = "mul" => ENABLED ChMul(c)
            /\ ch_pc[c] = "add" => ENABLED ChAdd(c))
    /\ [][\A c \in Chains : ch_pc[c] \in {"mul", "add"} => ch_in'[c] = ch_in[c]]_vars

\* chain 1 has finished while chain 2, on other operands, is between its steps
C7_Witness ==
    /\ ch_pc[1] = "done" /\ ch_pc[2] = "add"
    /\ ch_in[1] = [raw |-> -One, loc |-> 0, scale |-> One]
    /\ ch_in[2] = [raw |-> 1, loc |-> One, scale |-> 1]
    /\ ch_out[1] = -One

\* the effective value of row k at the sampled point now held
RowValue(k) ==
    FAdd(FMul(logit_p_shop_raw[k], logit_p_owner_scale[data[k] + 1]),
         logit_p_owner_mean[data[k] + 1])

\* C8: after every sampler step the effective variable is raw * scale + loc
\* of that step's own raw, loc and scale, row by row: it is never a value
\* carried over from an earlier step.
C8_EffectiveRecomputed ==
    pc = "sampling" =>
        /\ logit_p_shop.kind = "ok"
        /\ logit_p_shop.val.shape = << Len(data) >>
        /\ \A k \in 1 .. Len(data) : logit_p_shop.val.data[k] = RowValue(k)

\* two shops of two owners; the second product, 0.5 * 0.5 in the smallest
\* format, is rounded
C8_Witness ==
    /\ pc = "sampling" /\ data = << 1, 0 >>
    /\ logit_p_shop_raw = << -One, 1 >>
    /\ logit_p_owner_scale = << 1, One >>
    /\ logit_p_owner_mean = << -One, 1 >>
    /\ logit_p_shop = Ok(Vec(<< 1 - One, FAdd(FMul(1, 1), -One) >>))

\* C9: every scale value that reaches raw * scale + loc is > 0: it is the
\* gathered Exponential draw in the model and np.exp(v) in the funnel loop.
C9_ScalePositive ==
    /\ \A k \in 1 .. Len(scale_arg.data) : scale_arg.data[k] > 0
    /\ \A k \in 1 .. Len(logit_p_owner_scale) : logit_p_owner_scale[k] > 0
    /\ pc = "sampling" => scale_arg = Vec(Gather(logit_p_owner_scale, data))
    /\ (pc = "funnel" /\ loop_i > 0) => scale_arg = Vec(<< NpExp(v.data[1]) >>)

\* the smallest positive scale for both owners
C9_Witness ==
    /\ pc = "sampling" /\ data = << 0, 1 >>
    /\ scale_arg = Vec(<< 1, 1 >>)
    /\ logit_p_shop.kind = "ok"

====
